---- MODULE Spec2Model ----
(***************************************************************************)
(* CODEOWNERS validator (src/src/lib/validator.test.ts, lines 264-489):    *)
(* normalizePath, ruleMatchesPath, isRuleRelevantToFolders, checkOwnership *)
(* and validateCodeOwners.                                                 *)
(*                                                                         *)
(* A JavaScript string is a sequence of one-character strings, so that     *)
(* prefixes, splits and replacements are computed character by character.  *)
(***************************************************************************)
EXTENDS Integers, Sequences, FiniteSets, TLC

VARIABLES
    \* parseCodeOwnersFile
    lines,              \* the lines of the manifest, as readline yields them
    lineNo,             \* lines already taken by the for await loop
    \* validateCodeOwners
    rules,              \* Map<string, number> as its entries in insertion order
    allFilePaths,       \* result of scanAllFiles
    foldersToValidate,  \* the folders argument
    idx,                \* files already passed through the filter callback
    uncoveredFiles,
    unusedRules,
    errorMessages,
    pc,
    \* calls of the exported pure functions
    argRule,
    argPath,
    argFolders,
    retNorm,            \* results of successive normalizePath applications
    retMatch,           \* <<>> or <<result of ruleMatchesPath>>
    retRelevant         \* <<>> or <<result of isRuleRelevantToFolders>>

vars == <<lines, lineNo, rules, allFilePaths, foldersToValidate, idx, uncoveredFiles,
          unusedRules, errorMessages, pc,
          argRule, argPath, argFolders, retNorm, retMatch, retRelevant>>

engineVars == <<lines, lineNo, rules, allFilePaths, foldersToValidate, idx, uncoveredFiles,
                unusedRules, errorMessages, pc>>

callVars == <<argRule, argPath, argFolders, retNorm, retMatch, retRelevant>>

----------------------------------------------------------------------------
(* Bounds *)

MaxPathLen == 4      \* characters of a raw string handed to normalizePath
MaxRuleSegs == 2     \* segments of a rule pattern
MaxFileSegs == 3     \* segments of a file path
MaxFolders == 2      \* tracked folders in one call
MaxRules == 2        \* rules in the manifest of one validation run
MaxFiles == 2        \* files enumerated in one validation run
MaxLineLen == 3      \* characters of one line of the manifest
MaxLines == 2        \* lines of the manifest

----------------------------------------------------------------------------
(* String primitives of the JavaScript runtime *)

\* String.prototype.startsWith
StartsWith(s, p) ==
    /\ Len(p) <= Len(s)
    /\ SubSeq(s, 1, Len(p)) = p

\* String.prototype.includes, for a single character
Includes(s, c) == \E i \in 1..Len(s) : s[i] = c

\* s.slice(n)
Drop(s, n) == SubSeq(s, n + 1, Len(s))

\* index of the first occurrence of c in s, Len(s) + 1 when there is none
RECURSIVE IndexOf(_, _, _)
IndexOf(s, c, i) ==
    IF i > Len(s) THEN Len(s) + 1
    ELSE IF s[i] = c THEN i
    ELSE IndexOf(s, c, i + 1)

\* s.replace(/\/+$/, '')
RECURSIVE StripTrailingSlashes(_)
StripTrailingSlashes(s) ==
    IF Len(s) > 0 /\ s[Len(s)] = "/"
    THEN StripTrailingSlashes(SubSeq(s, 1, Len(s) - 1))
    ELSE s

\* s.replace(/\\/g, '/')
BackslashesToSlashes(s) ==
    [i \in 1..Len(s) |-> IF s[i] = "\\" THEN "/" ELSE s[i]]

\* s.split(/\/+/): a run of slashes is one separator; a leading or trailing
\* separator leaves an empty first or last part
RECURSIVE SplitFrom(_, _, _)
SplitFrom(s, i, cur) ==
    IF i > Len(s) THEN <<cur>>
    ELSE IF s[i] = "/"
         THEN IF i > 1 /\ s[i - 1] = "/"
              THEN SplitFrom(s, i + 1, cur)
              ELSE <<cur>> \o SplitFrom(s, i + 1, <<>>)
         ELSE SplitFrom(s, i + 1, Append(cur, s[i]))

slashSplit(s) == SplitFrom(s, 1, <<>>)

----------------------------------------------------------------------------
(* normalizePath *)

normalizePath(p) ==
    LET s1 == IF StartsWith(p, <<".", "/">>) THEN Drop(p, 2) ELSE p
        s2 == IF StartsWith(s1, <<"/">>) THEN Drop(s1, 1) ELSE s1
        s3 == StripTrailingSlashes(s2)
    IN  BackslashesToSlashes(s3)

----------------------------------------------------------------------------
(* minimatch(p, pattern, options), the library call made by ruleMatchesPath *)
(* and isRuleRelevantToFolders.  Only the wildcard `*` is modelled: the     *)
(* inputs below hold none of the other magic characters (? [ ] { } ! #).    *)

GLOBSTAR == <<"*", "*">>

\* one pattern part compiled to a regular expression: each star is [^/]*?
RECURSIVE StarMatch(_, _)
StarMatch(pat, s) ==
    IF pat = <<>> THEN s = <<>>
    ELSE IF pat[1] = "*"
         THEN \/ StarMatch(Tail(pat), s)
              \/ s # <<>> /\ StarMatch(pat, Tail(s))
         ELSE /\ s # <<>>
              /\ s[1] = pat[1]
              /\ StarMatch(Tail(pat), Tail(s))

\* a part without magic is compared as a string; a part that begins with a
\* star gets the prefix (?!\.)(?=.): no leading dot, not empty (dot: false)
matchPart(p, f) ==
    IF ~Includes(p, "*") THEN f = p
    ELSE /\ (p[1] = "*" => f # <<>> /\ f[1] # ".")
         /\ StarMatch(p, f)

\* the test matchOne makes before a globstar swallows a path part
isDotPart(f) ==
    \/ f = <<".">>
    \/ f = <<".", ".">>
    \/ f # <<>> /\ f[1] = "."

RECURSIVE matchOne(_, _)
RECURSIVE globstarSwallow(_, _)

\* the while loop of the GLOBSTAR case: try the rest of the pattern at each
\* part of the file, giving up at the first dot part that would be swallowed
globstarSwallow(file, rest) ==
    IF file = <<>> THEN FALSE
    ELSE \/ matchOne(file, rest)
         \/ ~isDotPart(file[1]) /\ globstarSwallow(Tail(file), rest)

\* Minimatch.matchOne(file, pattern, partial = false)
matchOne(file, pattern) ==
    IF file = <<>> \/ pattern = <<>>
    THEN IF file = <<>> /\ pattern = <<>> THEN TRUE
         ELSE IF file = <<>> THEN FALSE
         ELSE Len(file) = 1 /\ file[1] = <<>>
    ELSE IF pattern[1] = GLOBSTAR
         THEN IF Len(pattern) = 1
              THEN \A i \in 1..Len(file) : ~isDotPart(file[i])
              ELSE globstarSwallow(file, Tail(pattern))
         ELSE /\ matchPart(pattern[1], file[1])
              /\ matchOne(Tail(file), Tail(pattern))

\* the last non-empty part of the file, '' when there is none
RECURSIVE baseName(_)
baseName(ff) ==
    IF ff = <<>> THEN <<>>
    ELSE IF ff[Len(ff)] # <<>> THEN ff[Len(ff)]
    ELSE baseName(SubSeq(ff, 1, Len(ff) - 1))

minimatch(p, pattern, matchBase) ==
    IF pattern = <<>> THEN p = <<>>
    ELSE LET ff == slashSplit(p)
             set == slashSplit(pattern)
             file == IF matchBase /\ Len(set) = 1 THEN <<baseName(ff)>> ELSE ff
         IN  matchOne(file, set)

----------------------------------------------------------------------------
(* ruleMatchesPath *)

\* the glob branch without {matchBase: true}
ruleMatchesPath_NoMatchBase(rule, filePath) ==
    LET cleanRule == normalizePath(rule)
        cleanPath == normalizePath(filePath)
        hasGlob == Includes(cleanRule, "*")
    IN  IF hasGlob
        THEN minimatch(cleanPath, cleanRule, FALSE)
        ELSE \/ minimatch(cleanPath, cleanRule, FALSE)
             \/ minimatch(cleanPath, cleanRule \o <<"/", "*", "*">>, FALSE)

ruleMatchesPath(rule, filePath) ==
    LET cleanRule == normalizePath(rule)
        cleanPath == normalizePath(filePath)
        hasGlob == Includes(cleanRule, "*")
    IN  IF hasGlob
        THEN minimatch(cleanPath, cleanRule, TRUE)
        ELSE \/ minimatch(cleanPath, cleanRule, FALSE)
             \/ minimatch(cleanPath, cleanRule \o <<"/", "*", "*">>, FALSE)

----------------------------------------------------------------------------
(* isRuleRelevantToFolders *)

\* cleanRule.split('*')[0].replace(/\/$/, '')
ruleBaseOf(cleanRule) ==
    LET head == SubSeq(cleanRule, 1, IndexOf(cleanRule, "*", 1) - 1)
    IN  IF Len(head) > 0 /\ head[Len(head)] = "/"
        THEN SubSeq(head, 1, Len(head) - 1)
        ELSE head

\* the body of the for loop, for one folder
folderIsRelevant(cleanRule, folder) ==
    LET cleanFolder == normalizePath(folder)
        ruleBase == ruleBaseOf(cleanRule)
    IN  \/ StartsWith(cleanRule, cleanFolder \o <<"/">>)
        \/ cleanRule = cleanFolder
        \/ StartsWith(cleanFolder, cleanRule \o <<"/">>)
        \/ cleanFolder = cleanRule
        \/ /\ Includes(cleanRule, "*")
           /\ \/ minimatch(cleanFolder, cleanRule, TRUE)
              \/ /\ ruleBase # <<>>
                 /\ \/ StartsWith(cleanFolder, ruleBase \o <<"/">>)
                    \/ cleanFolder = ruleBase

\* the loop returning false at the first folder that is not relevant
RECURSIVE relevantFrom_AllFolders(_, _, _)
relevantFrom_AllFolders(cleanRule, folders, i) ==
    IF i > Len(folders) THEN Len(folders) > 0
    ELSE IF ~folderIsRelevant(cleanRule, folders[i]) THEN FALSE
    ELSE relevantFrom_AllFolders(cleanRule, folders, i + 1)

\* the loop looking at the first folder only
relevantFrom_FirstFolder(cleanRule, folders, i) ==
    /\ i <= Len(folders)
    /\ folderIsRelevant(cleanRule, folders[i])

\* for (const folder of folders) { ... return true } return false
RECURSIVE relevantFrom(_, _, _)
relevantFrom(cleanRule, folders, i) ==
    IF i > Len(folders) THEN FALSE
    ELSE IF folderIsRelevant(cleanRule, folders[i]) THEN TRUE
    ELSE relevantFrom(cleanRule, folders, i + 1)

isRuleRelevantToFolders(rule, folders) ==
    relevantFrom(normalizePath(rule), folders, 1)

----------------------------------------------------------------------------
(* isValidCodeOwnersLine, parseCodeOwnersFile *)

\* the white space String.prototype.trim removes, as far as the lines hold it
isWhiteSpace(c) == c \in {" ", "\t"}

RECURSIVE trimStart(_)
trimStart(s) ==
    IF s # <<>> /\ isWhiteSpace(s[1]) THEN trimStart(Tail(s)) ELSE s

RECURSIVE trimEnd(_)
trimEnd(s) ==
    IF s # <<>> /\ isWhiteSpace(s[Len(s)])
    THEN trimEnd(SubSeq(s, 1, Len(s) - 1))
    ELSE s

\* String.prototype.trim
trim(s) == trimEnd(trimStart(s))

\* !line.startsWith('#') && line.trim().length > 0
isValidCodeOwnersLine(line) ==
    /\ ~StartsWith(line, <<"#">>)
    /\ Len(trim(line)) > 0

\* const [pathPattern] = line.split(' ')
pathPatternOf(line) == SubSeq(line, 1, IndexOf(line, " ", 1) - 1)

\* Map.prototype.set: a present key keeps its place and takes the value
mapSet(rs, key, value) ==
    IF \E i \in 1..Len(rs) : rs[i].rule = key
    THEN [i \in 1..Len(rs) |->
            IF rs[i].rule = key THEN [rule |-> key, count |-> value] ELSE rs[i]]
    ELSE Append(rs, [rule |-> key, count |-> value])

----------------------------------------------------------------------------
(* checkOwnership *)

\* the loop returning at the first matching rule, which alone is credited
RECURSIVE ownershipLoop_FirstMatchOnly(_, _, _, _)
ownershipLoop_FirstMatchOnly(filePath, rs, i, owned) ==
    IF i > Len(rs) THEN [owned |-> owned, rules |-> rs]
    ELSE IF ruleMatchesPath(rs[i].rule, filePath)
         THEN [owned |-> TRUE, rules |-> [rs EXCEPT ![i].count = @ + 1]]
         ELSE ownershipLoop_FirstMatchOnly(filePath, rs, i + 1, owned)

checkOwnership_FirstMatchOnly(filePath, rs) ==
    ownershipLoop_FirstMatchOnly(filePath, rs, 1, FALSE)

\* the loop assigning owned at every rule, so that the last rule decides
RECURSIVE ownershipLoop_LastRuleDecides(_, _, _, _)
ownershipLoop_LastRuleDecides(filePath, rs, i, owned) ==
    IF i > Len(rs) THEN [owned |-> owned, rules |-> rs]
    ELSE IF ruleMatchesPath(rs[i].rule, filePath)
         THEN ownershipLoop_LastRuleDecides(
                  filePath, [rs EXCEPT ![i].count = @ + 1], i + 1, TRUE)
         ELSE ownershipLoop_LastRuleDecides(filePath, rs, i + 1, FALSE)

checkOwnership_LastRuleDecides(filePath, rs) ==
    ownershipLoop_LastRuleDecides(filePath, rs, 1, FALSE)

\* for (const [rule, count] of rules) { if (ruleMatchesPath(rule, filePath))
\*   { rules.set(rule, count + 1); owned = true } }
RECURSIVE ownershipLoop(_, _, _, _)
ownershipLoop(filePath, rs, i, owned) ==
    IF i > Len(rs) THEN [owned |-> owned, rules |-> rs]
    ELSE IF ruleMatchesPath(rs[i].rule, filePath)
         THEN ownershipLoop(filePath, [rs EXCEPT ![i].count = @ + 1], i + 1, TRUE)
         ELSE ownershipLoop(filePath, rs, i + 1, owned)

\* the returned flag and the map as the call leaves it
checkOwnership(filePath, rs) == ownershipLoop(filePath, rs, 1, FALSE)

----------------------------------------------------------------------------
(* validateCodeOwners *)

\* the filter without the relevance test
unusedRulesOf_NoRelevance(rs, folders) ==
    LET Unused(e) == e.count = 0
        kept == SelectSeq(rs, Unused)
    IN  [i \in 1..Len(kept) |-> kept[i].rule]

\* [...rules.entries()].filter(([rule, count]) => count === 0 &&
\*   isRuleRelevantToFolders(rule, foldersToValidate)).map(([rule]) => rule)
unusedRulesOf(rs, folders) ==
    LET Unused(e) == e.count = 0 /\ isRuleRelevantToFolders(e.rule, folders)
        kept == SelectSeq(rs, Unused)
    IN  [i \in 1..Len(kept) |-> kept[i].rule]

\* one line of the error message: a fixed text, or the item prefix and the
\* rule or path it lists
Line(text, arg) == [text |-> text, arg |-> arg]

UnusedHeader ==
    Line("CODEOWNERS contains rules that do not match any files in the specified folders:", <<>>)
UnusedFooter == Line("Please remove these entries or verify the paths exist.", <<>>)
UncoveredHeader == Line("The following files do not have owners:", <<>>)
UncoveredFooter == Line("Please add rules to CODEOWNERS to cover these files.", <<>>)
Blank == Line("", <<>>)

Items(xs) == [i \in 1..Len(xs) |-> Line("  - ", xs[i])]

\* the second block pushed only when the first was not
errorMessagesOf_ElseIf(unused, uncovered) ==
    IF Len(unused) > 0
    THEN <<UnusedHeader>> \o Items(unused) \o <<Blank, UnusedFooter>>
    ELSE IF Len(uncovered) > 0
    THEN <<UncoveredHeader>> \o Items(uncovered) \o <<Blank, UncoveredFooter>>
    ELSE <<>>

\* the two if blocks pushing onto errorMessages
errorMessagesOf(unused, uncovered) ==
    (IF Len(unused) > 0
     THEN <<UnusedHeader>> \o Items(unused) \o <<Blank, UnusedFooter>>
     ELSE <<>>)
    \o
    (IF Len(uncovered) > 0
     THEN <<UncoveredHeader>> \o Items(uncovered) \o <<Blank, UncoveredFooter>>
     ELSE <<>>)

----------------------------------------------------------------------------
(* Inputs *)

Slash == <<"/">>

\* the strings of at most n characters over alphabet A
RECURSIVE StringsUpTo(_, _)
StringsUpTo(A, n) ==
    IF n = 0 THEN {<<>>}
    ELSE LET shorter == StringsUpTo(A, n - 1)
         IN  shorter \cup {Append(s, c) : s \in shorter, c \in A}

\* the paths of at most n segments drawn from S, joined by "/"
RECURSIVE SegPaths(_, _)
SegPaths(S, n) ==
    IF n = 0 THEN {}
    ELSE LET shorter == SegPaths(S, n - 1)
         IN  S \cup {p \o Slash \o s : p \in shorter, s \in S}

\* file and directory names: a plain name, a name it is a raw prefix of, a
\* dot name
Names == {<<"a">>, <<"a", "b">>, <<".", "a">>}

\* pattern segments: the names, `*`, `**` and a suffix wildcard (as `*.ts`)
PatternSegs == Names \cup {<<"*">>, <<"*", "*">>, <<"*", "b">>}

NormAlphabet == {"/", ".", "\\", "a"}

\* the characters of a manifest line: comment sign, space, tab, a pattern
\* character and an owner character
LineAlphabet == {"#", " ", "\t", "a", "@"}

LineInputs == StringsUpTo(LineAlphabet, MaxLineLen)

\* the sequences of at most n elements of S
RECURSIVE SeqsUpTo(_, _)
SeqsUpTo(S, n) ==
    IF n = 0 THEN {<<>>}
    ELSE LET shorter == SeqsUpTo(S, n - 1)
         IN  shorter \cup {Append(q, x) : q \in shorter, x \in S}

PathInputs == StringsUpTo(NormAlphabet, MaxPathLen)

\* rules as written in a manifest, among them the root rule `/`
RuleInputs ==
    {pre \o core \o post :
        pre \in {<<>>, <<"/">>},
        core \in SegPaths(PatternSegs, MaxRuleSegs),
        post \in {<<>>, <<"/">>}}
    \cup {<<"/">>}

FileInputs ==
    {pre \o core :
        pre \in {<<>>, <<".", "/">>},
        core \in SegPaths(Names, MaxFileSegs)}

\* rule segments and folder names of the relevance calls
RelevanceSegs == PatternSegs \ {<<".", "a">>}

FolderNames == {<<"a">>, <<"a", "b">>}

\* rules with and without the leading `/`, among them the root rule `/`
RelevanceRuleInputs ==
    {pre \o core : pre \in {<<>>, Slash},
                   core \in SegPaths(RelevanceSegs, MaxRuleSegs)}
    \cup {Slash}

\* tracked folders as main.ts hands them over: two top-level folders, the
\* one a raw prefix of the other, a subfolder, a folder written with `./`,
\* and `./` alone (the whole repository)
FolderInputs ==
    FolderNames \cup
    {<<"a", "/", "a">>, <<".", "/", "a", "b">>, <<".", "/">>}

\* the sequences of at most n distinct elements of S
RECURSIVE DistinctSeqs(_, _)
DistinctSeqs(S, n) ==
    IF n = 0 THEN {<<>>}
    ELSE LET shorter == DistinctSeqs(S, n - 1)
             longer == {Append(q, x) : q \in shorter, x \in S}
         IN  shorter \cup
             {q \in longer : \A i, j \in 1..Len(q) : q[i] = q[j] => i = j}

\* the manifests of a validation run: a directory rule, a rule below it, a
\* rule for another top-level folder, a suffix glob and a one-level glob
ManifestRules ==
    { <<"/", "a">>,
      <<"/", "a", "/", "a">>,
      <<"/", "a", "b">>,
      <<"*", "b">>,
      <<"/", "a", "/", "*">> }

\* what getAllFiles finds below a folder: `${directoryPath}/${item.name}`
FileTails ==
    { <<"a", "b">>, <<".", "a">>, <<"a", "/", "a", "b">> }

FilesUnder(folders) ==
    {folders[i] \o Slash \o tail : i \in 1..Len(folders), tail \in FileTails}

TrackedFolderLists == DistinctSeqs(FolderNames, MaxFolders) \ {<<>>}

\* s with x inserted after its first k elements
InsertAt(s, k, x) == SubSeq(s, 1, k) \o <<x>> \o SubSeq(s, k + 1, Len(s))

----------------------------------------------------------------------------
(* Calls of the pure functions *)

EngineIdle ==
    /\ lines = <<>>
    /\ lineNo = 0
    /\ rules = <<>>
    /\ allFilePaths = <<>>
    /\ foldersToValidate = <<>>
    /\ idx = 0
    /\ uncoveredFiles = <<>>
    /\ unusedRules = <<>>
    /\ errorMessages = <<>>
    /\ pc = "idle"

InitNormalize ==
    /\ EngineIdle
    /\ argRule = <<>>
    /\ argPath \in PathInputs
    /\ argFolders = <<>>
    /\ retNorm = <<>>
    /\ retMatch = <<>>
    /\ retRelevant = <<>>

\* normalizePath(p), then normalizePath of the result
CallNormalizePath ==
    /\ Len(retNorm) < 2
    /\ retNorm' = Append(retNorm,
                         normalizePath(IF retNorm = <<>> THEN argPath
                                       ELSE retNorm[Len(retNorm)]))
    /\ UNCHANGED <<engineVars, argRule, argPath, argFolders, retMatch, retRelevant>>

SpecNormalize == InitNormalize /\ [][CallNormalizePath]_vars

InitMatch ==
    /\ EngineIdle
    /\ argRule \in RuleInputs
    /\ argPath \in FileInputs
    /\ argFolders = <<>>
    /\ retNorm = <<>>
    /\ retMatch = <<>>
    /\ retRelevant = <<>>

CallRuleMatchesPath ==
    /\ retMatch = <<>>
    /\ retMatch' = <<ruleMatchesPath(argRule, argPath)>>
    /\ UNCHANGED <<engineVars, argRule, argPath, argFolders, retNorm, retRelevant>>

SpecMatch == InitMatch /\ [][CallRuleMatchesPath]_vars

InitRelevant ==
    /\ EngineIdle
    /\ argRule \in RelevanceRuleInputs
    /\ argPath = <<>>
    /\ argFolders \in {<<>>} \cup {<<f>> : f \in FolderInputs}
    /\ retNorm = <<>>
    /\ retMatch = <<>>
    /\ retRelevant = <<>>

CallIsRuleRelevantToFolders ==
    /\ retRelevant = <<>>
    /\ retRelevant' = <<isRuleRelevantToFolders(argRule, argFolders)>>
    /\ UNCHANGED <<engineVars, argRule, argPath, argFolders, retNorm, retMatch>>

\* the same rule asked again with one more tracked folder, at any position
AddFolder ==
    /\ retRelevant # <<>>
    /\ retMatch = <<>>
    /\ Len(argFolders) < MaxFolders
    /\ \E f \in FolderInputs, k \in 0..Len(argFolders) :
          /\ argFolders' = InsertAt(argFolders, k, f)
          /\ retRelevant' = <<isRuleRelevantToFolders(argRule, argFolders')>>
    /\ UNCHANGED <<engineVars, argRule, argPath, retNorm, retMatch>>

\* the rule matched against a file that lies under the one tracked folder
MatchFileInFolder ==
    /\ retRelevant # <<>>
    /\ retMatch = <<>>
    /\ Len(argFolders) = 1
    /\ normalizePath(argFolders[1]) # <<>>
    /\ \E tail \in SegPaths(Names, MaxFileSegs - 1) :
          /\ argPath' = argFolders[1] \o Slash \o tail
          /\ retMatch' = <<ruleMatchesPath(argRule, argPath')>>
    /\ UNCHANGED <<engineVars, argRule, argFolders, retNorm, retRelevant>>

NextRelevant ==
    \/ CallIsRuleRelevantToFolders
    \/ AddFolder
    \/ MatchFileInFolder

SpecRelevant == InitRelevant /\ [][NextRelevant]_vars

CallsIdle ==
    /\ argRule = <<>>
    /\ argPath = <<>>
    /\ argFolders = <<>>
    /\ retNorm = <<>>
    /\ retMatch = <<>>
    /\ retRelevant = <<>>

\* the state after Promise.all([parseCodeOwnersFile, scanAllFiles]): every
\* rule of the manifest once, with counter 0, and the files under the folders
Init ==
    /\ CallsIdle
    /\ lines = <<>>
    /\ lineNo = 0
    /\ foldersToValidate \in TrackedFolderLists
    /\ \E rs \in DistinctSeqs(ManifestRules, MaxRules) :
          rules = [i \in 1..Len(rs) |-> [rule |-> rs[i], count |-> 0]]
    /\ allFilePaths \in DistinctSeqs(FilesUnder(foldersToValidate), MaxFiles)
    /\ idx = 0
    /\ uncoveredFiles = <<>>
    /\ unusedRules = <<>>
    /\ errorMessages = <<>>
    /\ pc = "matching"

\* one call of the filter callback: filePath => !checkOwnership(filePath, rules)
CheckFile ==
    /\ pc = "matching"
    /\ idx < Len(allFilePaths)
    /\ LET filePath == allFilePaths[idx + 1]
           res == checkOwnership(filePath, rules)
       IN  /\ rules' = res.rules
           /\ uncoveredFiles' = IF res.owned THEN uncoveredFiles
                                ELSE Append(uncoveredFiles, filePath)
    /\ idx' = idx + 1
    /\ UNCHANGED <<lines, lineNo, allFilePaths, foldersToValidate, unusedRules,
                   errorMessages, pc, callVars>>

\* the filter over rules.entries(), once the filter over the files is done
CollectUnusedRules ==
    /\ pc = "matching"
    /\ idx = Len(allFilePaths)
    /\ unusedRules' = unusedRulesOf(rules, foldersToValidate)
    /\ pc' = "report"
    /\ UNCHANGED <<lines, lineNo, rules, allFilePaths, foldersToValidate, idx,
                   uncoveredFiles, errorMessages, callVars>>

\* the error messages are collected; the function throws when there are any
Report ==
    /\ pc = "report"
    /\ errorMessages' = errorMessagesOf(unusedRules, uncoveredFiles)
    /\ pc' = IF Len(errorMessages') > 0 THEN "failed" ELSE "done"
    /\ UNCHANGED <<lines, lineNo, rules, allFilePaths, foldersToValidate, idx,
                   uncoveredFiles, unusedRules, callVars>>

Next ==
    \/ CheckFile
    \/ CollectUnusedRules
    \/ Report

Spec == Init /\ [][Next]_vars

\* parseCodeOwnersFile called on a manifest
InitParse ==
    /\ CallsIdle
    /\ lines \in SeqsUpTo(LineInputs, MaxLines)
    /\ lineNo = 0
    /\ rules = <<>>
    /\ allFilePaths = <<>>
    /\ foldersToValidate = <<>>
    /\ idx = 0
    /\ uncoveredFiles = <<>>
    /\ unusedRules = <<>>
    /\ errorMessages = <<>>
    /\ pc = "parsing"

\* one turn of for await (const line of lineReader)
ReadLine ==
    /\ pc = "parsing"
    /\ lineNo < Len(lines)
    /\ LET line == lines[lineNo + 1]
       IN  rules' = IF isValidCodeOwnersLine(line)
                    THEN mapSet(rules, pathPatternOf(line), 0)
                    ELSE rules
    /\ lineNo' = lineNo + 1
    /\ UNCHANGED <<lines, allFilePaths, foldersToValidate, idx, uncoveredFiles,
                   unusedRules, errorMessages, pc, callVars>>

\* return {rules}
ParseDone ==
    /\ pc = "parsing"
    /\ lineNo = Len(lines)
    /\ pc' = "parsed"
    /\ UNCHANGED <<lines, lineNo, rules, allFilePaths, foldersToValidate, idx,
                   uncoveredFiles, unusedRules, errorMessages, callVars>>

NextParse ==
    \/ ReadLine
    \/ ParseDone

SpecParse == InitParse /\ [][NextParse]_vars

----------------------------------------------------------------------------
(* C3: normalizePath *)

\* C3 as stated: normalizePath(normalizePath(p)) = normalizePath(p) for every
\* string p.
C3_Idempotent ==
    Len(retNorm) = 2 => retNorm[2] = retNorm[1]

----------------------------------------------------------------------------
(* C1, C2: ruleMatchesPath *)

\* C1 as stated: for a rule whose normalized form holds no `*`,
\* ruleMatchesPath(rule, file) is true exactly when the normalized file
\* equals the normalized rule or begins with the normalized rule followed by
\* `/`, whatever the names of the segments below the rule.
C1_PrefixMatch ==
    LET cleanRule == normalizePath(argRule)
        cleanPath == normalizePath(argPath)
    IN  (retMatch # <<>> /\ ~Includes(cleanRule, "*"))
            => (retMatch[1] <=> (\/ cleanPath = cleanRule
                                 \/ StartsWith(cleanPath, cleanRule \o Slash)))

\* Glob matching stated on the characters of pattern and path, not on their
\* split parts: a literal character matches itself (so every `/` of the
\* pattern is a `/` of the path), `*` matches a run of characters other than
\* `/`, and a segment that is exactly `**` matches zero or more whole
\* segments.  As in the shell, a wildcard at the start of a segment matches
\* neither an empty segment nor a leading `.`, and `**` passes over no
\* segment that begins with `.`.
RECURSIVE GlobRef(_, _, _)
RECURSIVE VisibleSegments(_, _)

\* s, read from the start of a segment, is a run of segments none of which
\* begins with `.`
VisibleSegments(s, atStart) ==
    IF s = <<>> THEN TRUE
    ELSE /\ (atStart => s[1] # ".")
         /\ VisibleSegments(Tail(s), s[1] = "/")

GlobRef(pat, s, atStart) ==
    IF pat = <<>> THEN s = <<>>
    ELSE IF atStart /\ pat = GLOBSTAR THEN VisibleSegments(s, TRUE)
    ELSE IF atStart /\ StartsWith(pat, <<"*", "*", "/">>)
         THEN \/ GlobRef(Drop(pat, 3), s, TRUE)
              \/ \E k \in 2..Len(s) :
                    /\ s[k] = "/"
                    /\ ~Includes(SubSeq(s, 1, k - 1), "/")
                    /\ s[1] # "."
                    /\ GlobRef(pat, Drop(s, k), TRUE)
    ELSE IF pat[1] = "*"
         THEN /\ (atStart => s # <<>> /\ s[1] # "." /\ s[1] # "/")
              /\ \/ GlobRef(Tail(pat), s, FALSE)
                 \/ s # <<>> /\ s[1] # "/" /\ GlobRef(pat, Tail(s), FALSE)
         ELSE /\ s # <<>>
              /\ s[1] = pat[1]
              /\ GlobRef(Tail(pat), Tail(s), pat[1] = "/")

\* the characters after the last `/`
RECURSIVE LastSegment(_)
LastSegment(s) ==
    IF ~Includes(s, "/") THEN s
    ELSE LastSegment(Tail(s))

\* C2: for a rule whose normalized form holds a `*`, ruleMatchesPath(rule,
\* file) equals glob matching of the normalized rule against the normalized
\* file, or against the file's last segment when the normalized rule holds
\* no `/`.
C2_GlobSemantics ==
    LET cleanRule == normalizePath(argRule)
        cleanPath == normalizePath(argPath)
    IN  (retMatch # <<>> /\ Includes(cleanRule, "*"))
            => (retMatch[1] <=>
                   IF Includes(cleanRule, "/")
                   THEN GlobRef(cleanRule, cleanPath, TRUE)
                   ELSE GlobRef(cleanRule, LastSegment(cleanPath), TRUE))

\* a glob rule with no `/` matched a file below the top level by its name
C2_Witness ==
    /\ retMatch = <<TRUE>>
    /\ Includes(normalizePath(argRule), "*")
    /\ ~Includes(normalizePath(argRule), "/")
    /\ Includes(normalizePath(argPath), "/")

----------------------------------------------------------------------------
(* C7, C8, C9: isRuleRelevantToFolders *)

\* C7 as stated: a rule that matches a file lying under a tracked folder is
\* relevant to that folder.
C7_MatchImpliesRelevant ==
    (/\ retMatch = <<TRUE>>
     /\ retRelevant # <<>>
     /\ Len(argFolders) = 1
     /\ StartsWith(normalizePath(argPath), normalizePath(argFolders[1]) \o Slash))
        => retRelevant[1]

\* s.split('/'): the segments of a path, every `/` a separator
RECURSIVE Segments(_)
Segments(s) ==
    LET i == IndexOf(s, "/", 1)
    IN  IF i > Len(s) THEN <<s>>
        ELSE <<SubSeq(s, 1, i - 1)>> \o Segments(Drop(s, i))

\* x equals y or is a path-segment prefix of it
AtOrAbove(x, y) ==
    LET xs == Segments(x)
        ys == Segments(y)
    IN  /\ Len(xs) <= Len(ys)
        /\ \A i \in 1..Len(xs) : xs[i] = ys[i]

\* glob matching of a rule against a path, by the last segment when the rule
\* holds no `/`
GlobMatches(cleanRule, cleanPath) ==
    IF Includes(cleanRule, "/")
    THEN GlobRef(cleanRule, cleanPath, TRUE)
    ELSE GlobRef(cleanRule, LastSegment(cleanPath), TRUE)

\* the literal text before the first wildcard character
BeforeWildcard(cleanRule) == SubSeq(cleanRule, 1, IndexOf(cleanRule, "*", 1) - 1)

\* with one trailing `/` removed
LiteralBase(cleanRule) ==
    LET b == BeforeWildcard(cleanRule)
    IN  IF b # <<>> /\ b[Len(b)] = "/" THEN SubSeq(b, 1, Len(b) - 1) ELSE b

\* the four conditions of C8 as stated; the root rule (normalized to the
\* empty string) is at or above every folder
C8_StatedCondition(cleanRule, cleanFolder) ==
    \/ cleanRule = <<>>
    \/ AtOrAbove(cleanRule, cleanFolder)
    \/ AtOrAbove(cleanFolder, cleanRule)
    \/ Includes(cleanRule, "*") /\ GlobMatches(cleanRule, cleanFolder)
    \/ Includes(cleanRule, "*") /\ AtOrAbove(LiteralBase(cleanRule), cleanFolder)

\* C8 as stated: isRuleRelevantToFolders(rule, folders) is true exactly when
\* some folder satisfies one of the four conditions, a rule denoting the
\* repository root being at or above every folder.
C8_Stated ==
    retRelevant # <<>> =>
        (retRelevant[1] <=>
            \E i \in 1..Len(argFolders) :
                C8_StatedCondition(normalizePath(argRule),
                                   normalizePath(argFolders[i])))

\* the conditions the code tests: the empty string is one empty segment, so
\* the root rule is at or above no named folder, and an empty literal base
\* reaches no folder
C8_AmendedCondition(cleanRule, cleanFolder) ==
    \/ AtOrAbove(cleanRule, cleanFolder)
    \/ AtOrAbove(cleanFolder, cleanRule)
    \/ Includes(cleanRule, "*") /\ GlobMatches(cleanRule, cleanFolder)
    \/ /\ Includes(cleanRule, "*")
       /\ LiteralBase(cleanRule) # <<>>
       /\ AtOrAbove(LiteralBase(cleanRule), cleanFolder)

\* C8 amended: isRuleRelevantToFolders(rule, folders) is true exactly when
\* some folder of the list satisfies (1) the normalized rule equals the
\* normalized folder or is a path-segment prefix of it, (2) the normalized
\* folder equals the normalized rule or is a path-segment prefix of it,
\* (3) the rule holds a wildcard and glob-matches the folder, or (4) the rule
\* holds a wildcard and the non-empty literal text before it, a trailing `/`
\* removed, equals the folder or is a path-segment prefix of it.
C8_Relevance ==
    retRelevant # <<>> =>
        (retRelevant[1] <=>
            \E i \in 1..Len(argFolders) :
                C8_AmendedCondition(normalizePath(argRule),
                                    normalizePath(argFolders[i])))

\* a rule found relevant through its literal base to the second folder of
\* the list only
C8_Witness ==
    /\ retRelevant = <<TRUE>>
    /\ Len(argFolders) = 2
    /\ Includes(normalizePath(argRule), "*")
    /\ ~C8_AmendedCondition(normalizePath(argRule), normalizePath(argFolders[1]))
    /\ ~GlobMatches(normalizePath(argRule), normalizePath(argFolders[2]))
    /\ ~AtOrAbove(normalizePath(argFolders[2]), normalizePath(argRule))
    /\ AtOrAbove(LiteralBase(normalizePath(argRule)), normalizePath(argFolders[2]))

\* every element of sequence a occurs in sequence b
SubList(a, b) == \A i \in 1..Len(a) : \E j \in 1..Len(b) : b[j] = a[i]

\* C9: a rule relevant to a list of folders is relevant to every list that
\* holds all of these folders, wherever the further folders are inserted.
C9_Monotonic ==
    [][(/\ retRelevant = <<TRUE>>
        /\ argRule' = argRule
        /\ SubList(argFolders, argFolders'))
          => retRelevant' = <<TRUE>>]_vars

\* a relevant rule asked again after an irrelevant folder was put in front
C9_Witness ==
    /\ retRelevant = <<TRUE>>
    /\ Len(argFolders) = 2
    /\ ~folderIsRelevant(normalizePath(argRule), argFolders[1])
    /\ folderIsRelevant(normalizePath(argRule), argFolders[2])

----------------------------------------------------------------------------
(* C4, C5, C6, C10: validateCodeOwners *)

Range(q) == {q[i] : i \in 1..Len(q)}

Finished == pc \in {"done", "failed"}

MatchedBySomeRule(filePath) ==
    \E i \in 1..Len(rules) : ruleMatchesPath(rules[i].rule, filePath)

\* C4: once the files are processed, uncoveredFiles holds exactly the
\* enumerated files that no rule of the manifest matches, in the order of
\* their enumeration.
C4_UncoveredExact ==
    (pc # "matching") =>
        /\ \A i \in 1..Len(allFilePaths) :
              (allFilePaths[i] \in Range(uncoveredFiles))
                  <=> ~MatchedBySomeRule(allFilePaths[i])
        /\ LET Unmatched(f) == ~MatchedBySomeRule(f)
           IN  uncoveredFiles = SelectSeq(allFilePaths, Unmatched)

\* the second of two rules covers one file, no rule covers the other
C4_Witness ==
    /\ Finished
    /\ Len(rules) = 2
    /\ Len(allFilePaths) = 2
    /\ Len(uncoveredFiles) = 1
    /\ \E i \in 1..2 :
          /\ ~ruleMatchesPath(rules[1].rule, allFilePaths[i])
          /\ ruleMatchesPath(rules[2].rule, allFilePaths[i])

\* C5: unusedRules holds exactly the rules whose counter is zero after the
\* last file and that are relevant to the tracked folders; it is computed in
\* one step, after the last file, and no counter changes afterwards; a rule
\* that matches an enumerated file is not in it.
C5_UnusedExact ==
    /\ [](pc # "matching" =>
            \A i \in 1..Len(rules) :
                /\ (rules[i].rule \in Range(unusedRules))
                      <=> /\ rules[i].count = 0
                          /\ isRuleRelevantToFolders(rules[i].rule, foldersToValidate)
                /\ (rules[i].rule \in Range(unusedRules))
                      => \A j \in 1..Len(allFilePaths) :
                            ~ruleMatchesPath(rules[i].rule, allFilePaths[j]))
    /\ [](pc = "matching" => unusedRules = <<>>)
    /\ [][unusedRules' # unusedRules => idx = Len(allFilePaths)]_vars
    /\ [][pc # "matching" => rules' = rules]_vars

\* a finished run with a rule matched by the last file only, which is not
\* reported, and a rule with counter zero that is irrelevant to the tracked
\* folders, which is not reported either
C5_Witness ==
    /\ Finished
    /\ Len(allFilePaths) = 2
    /\ \E i, j \in 1..Len(rules) :
          /\ rules[i].count = 0
          /\ ~isRuleRelevantToFolders(rules[i].rule, foldersToValidate)
          /\ rules[i].rule \notin Range(unusedRules)
          /\ rules[j].count = 1
          /\ ~ruleMatchesPath(rules[j].rule, allFilePaths[1])
          /\ ruleMatchesPath(rules[j].rule, allFilePaths[2])
          /\ rules[j].rule \notin Range(unusedRules)

\* the items listed below a header of the error message, up to the blank
\* line that closes the block
RECURSIVE ItemsFrom(_, _)
ItemsFrom(msgs, i) ==
    IF i > Len(msgs) \/ msgs[i].text # "  - " THEN <<>>
    ELSE <<msgs[i].arg>> \o ItemsFrom(msgs, i + 1)

ListedUnder(msgs, header) ==
    IF \E i \in 1..Len(msgs) : msgs[i] = header
    THEN ItemsFrom(msgs, 1 + CHOOSE i \in 1..Len(msgs) : msgs[i] = header)
    ELSE <<>>

\* C6: the run fails exactly when uncoveredFiles or unusedRules is not
\* empty; the failure lists every unused rule and every uncovered file, and
\* a successful run carries no message.
C6_FailureComplete ==
    Finished =>
        /\ (pc = "failed") <=> (Len(uncoveredFiles) > 0 \/ Len(unusedRules) > 0)
        /\ ListedUnder(errorMessages, UnusedHeader) = unusedRules
        /\ ListedUnder(errorMessages, UncoveredHeader) = uncoveredFiles
        /\ (pc = "done" => errorMessages = <<>>)

\* one failure carrying an unused rule and an uncovered file
C6_Witness ==
    /\ pc = "failed"
    /\ Len(unusedRules) > 0
    /\ Len(uncoveredFiles) > 0

\* the number of the first n enumerated files that rule matches
MatchCount(rule, n) ==
    Cardinality({j \in 1..n : ruleMatchesPath(rule, allFilePaths[j])})

\* C10: every counter equals the number of files processed so far that its
\* rule matches (zero at the start, the number of enumerated files it
\* matches at the end); no counter ever decreases, and processing a file adds
\* one to the counter of every rule matching it and nothing to the others.
C10_Counters ==
    /\ [](\A i \in 1..Len(rules) : rules[i].count = MatchCount(rules[i].rule, idx))
    /\ [][\A i \in 1..Len(rules) : rules'[i].count >= rules[i].count]_vars
    /\ [][idx' = idx + 1 =>
            \A i \in 1..Len(rules) :
                rules'[i].count =
                    rules[i].count +
                    (IF ruleMatchesPath(rules[i].rule, allFilePaths[idx + 1])
                     THEN 1 ELSE 0)]_vars

\* a file that credited two overlapping rules, the second of them twice by
\* now
C10_Witness ==
    /\ Finished
    /\ Len(rules) = 2
    /\ rules[1].count = 1
    /\ rules[2].count = 2

----------------------------------------------------------------------------
(* C11: parseCodeOwnersFile *)

\* a line that is not blank and whose first non-whitespace character is not
\* `#`
IsRuleLine(line) ==
    /\ trimStart(line) # <<>>
    /\ trimStart(line)[1] # "#"

\* the characters of s before its first white space
RECURSIVE UpToWhiteSpace(_)
UpToWhiteSpace(s) ==
    IF s = <<>> \/ isWhiteSpace(s[1]) THEN <<>>
    ELSE <<s[1]>> \o UpToWhiteSpace(Tail(s))

\* the first whitespace-delimited token of a line
FirstToken(line) == UpToWhiteSpace(trimStart(line))

\* C11 as stated: the parsed rules are the first whitespace-delimited tokens
\* of the lines that are not blank and whose first non-whitespace character
\* is not `#`, each with counter zero, and no other line gives a rule.
C11_ParsedRules ==
    pc = "parsed" =>
        /\ {rules[i].rule : i \in 1..Len(rules)} =
               {FirstToken(lines[k]) : k \in {j \in 1..Len(lines) : IsRuleLine(lines[j])}}
        /\ \A i \in 1..Len(rules) : rules[i].count = 0

====
